---- MODULE Spec2Model ----
(***************************************************************************)
(* Model of the video-recording pipeline of src/main.py: record_video (the *)
(* recording engine), get_camera_stream_url (the stream probe) and         *)
(* record_command (the chat command that owns the artifact), together with *)
(* the environment they act on: the temporary files, the external ffmpeg   *)
(* processes, the chat transport and task cancellation.                    *)
(*                                                                         *)
(* Each task is a coroutine; an action is one run of the coroutine from    *)
(* the await it is suspended on to the next await (or to its end).  The    *)
(* external processes run in parallel with the event loop and have their   *)
(* own actions.                                                            *)
(***************************************************************************)
EXTENDS Integers, FiniteSets, Sequences, TLC

\* ------------------------------------------------------------ bounds
\* Seconds by which one Tick advances a job's wait on its process.
TickLen == 40

\* ------------------------------------------------------------ program constants
MinDuration == 1
MaxDuration == 60
GracePeriod == 15
MinSize == 1024
SizeLimitMB == 8
ProgressThreshold == 5
ProgressStep == 5
HttpOk == 200

MB == 1024 * 1024

\* Python's None for output_path / process / video_path.
None == 0
\* os.path.exists(path) is False.
NoFile == -1

\* ------------------------------------------------------------ input sets
\* The invocations of one behaviour: each is one "!record d" command or one
\* direct call of record_video, run as its own task.
Jobs == {1, 2}
Durations == {0, 1, 6, 60, 61}
\* Durations of the direct calls of record_video: the shortest accepted one
\* and the two nearest refused ones (which no command passes on).
DirectDurations == {0, 1, 61}
Statuses == {200, 403}
Sizes == {0, 1023, 1024, 8 * MB, 8 * MB + 1}
ExitCodes == {0, 1}
\* What the process left on its stderr pipe: nothing, text, or bytes that are
\* not valid UTF-8.
NoBytes == ""
BadBytes == "\\xff"
Stderrs == {NoBytes, "Connection refused", BadBytes}
Paths == 1..Cardinality(Jobs)
Pids == 1..Cardinality(Jobs)
\* What os.getenv gives for a configuration variable: None when it is not
\* set, else its value, which may be the empty string.
NoEnv == "None"
EnvValues == {NoEnv, "", "value"}

VARIABLES job, files, procs, nextPath, nextPid,
          DISCORD_TOKEN, HA_URL, HA_TOKEN, CAMERA_ENTITY_ID, mainpc

config == <<DISCORD_TOKEN, HA_URL, HA_TOKEN, CAMERA_ENTITY_ID>>
vars == <<job, files, procs, nextPath, nextPid, config, mainpc>>

\* ------------------------------------------------------------ pure helpers

\* The range check with its upper bound off by one.
ValidDuration_OffByOne(d) == MinDuration <= d /\ d <= MaxDuration + 1

\* record_video's range check.
ValidDuration(d) == MinDuration <= d /\ d <= MaxDuration

\* record_command's own range check.
CmdValidDuration(d) == MinDuration <= d /\ d <= MaxDuration

\* A probe that takes every status from 200 up for success.
StatusOk_AnyStatus(s) == s >= HttpOk

\* get_camera_stream_url: the probe succeeds on status 200 only.
StatusOk(s) == s = HttpOk

\* One fixed output path shared by every call.
NamedTemporaryFile_Fixed(n) == 1

\* tempfile.NamedTemporaryFile(delete=False): a new file under a name no
\* earlier call was given; n is the number of names handed out so far + 1.
NamedTemporaryFile(n) == n

\* The wait_for deadline on process.communicate().
Timeout(d) == d + GracePeriod

\* os.path.exists / os.path.getsize
Exists(fs, p) == fs[p] # NoFile

\* os.unlink guarded by "path and os.path.exists(path)" (the except block of
\* record_video and the finally block of record_command).
Unlink(fs, p) ==
  IF p # None /\ Exists(fs, p) THEN [fs EXCEPT ![p] = NoFile] ELSE fs

\* An except block that re-raises without deleting.
CleanupOnError_Skip(fs, p) == fs

\* record_video's except block: delete the temporary file, then re-raise.
CleanupOnError(fs, p) == Unlink(fs, p)

\* A finally block that leaves the artifact in place.
CleanupFinally_Skip(fs, p) == fs

\* record_command's finally block, file part.
CleanupFinally(fs, p) == Unlink(fs, p)

\* The output check without its size test.
OutputTooSmall_ExistsOnly(fs, p) == ~Exists(fs, p)

\* The size check with its threshold one byte lower.
OutputTooSmall_OffByOne(fs, p) == ~Exists(fs, p) \/ fs[p] < MinSize - 1

\* "not os.path.exists(output_path) or os.path.getsize(output_path) < 1024"
OutputTooSmall(fs, p) == ~Exists(fs, p) \/ fs[p] < MinSize

\* "not os.path.exists(video_path) or os.path.getsize(video_path) == 0"
ArtifactEmpty(fs, p) == ~Exists(fs, p) \/ fs[p] = 0

\* The ceiling check one byte higher.
ArtifactTooLarge_OffByOne(size) == size > SizeLimitMB * MB + 1

\* file_size = getsize / (1024 * 1024); file_size > 8.  The division is by a
\* power of two, exact in binary floating point, so the comparison is the
\* integer comparison of the byte count with 8 * 1024 * 1024.
ArtifactTooLarge(size) == size > SizeLimitMB * MB

\* stderr.decode(): fails on bytes that are not valid UTF-8.
Decodable(b) == b # BadBytes

\* error_msg = stderr.decode() if stderr else "Unknown error"
ErrorMsg(b) == IF b # NoBytes THEN b ELSE "Unknown error"

\* str(e) of the exception record_command's except block caught: the text
\* record_video raised, or the transport's own error.
ExcText(jr) == IF jr.exc = jr.result THEN jr.errtext ELSE "HTTPException"

\* The text of each message the command can send to the chat.
NoticeText(jr, kind) ==
  CASE kind = "InvalidDuration" -> "Duration must be between 1 and 60 seconds!"
    [] kind = "EmptyFile" -> "Error: Failed to record video (empty file created)"
    [] kind = "TooLarge" -> "Recording was successful but the file is too large to send (>8MB). Try a shorter duration."
    [] kind = "Error" -> "Error recording video: " \o ExcText(jr)
    [] kind = "ErrorOccurred" ->
         "An error occurred: Command raised an exception: Exception: " \o ExcText(jr)
    [] OTHER -> kind

\* ------------------------------------------------------------ state

IdleJob ==
  [ cpc |-> "idle", rpc |-> "idle", duration |-> 0, i |-> 0,
    processing_msg |-> FALSE, video_path |-> None, output_path |-> None,
    process |-> None, result |-> "none", errtext |-> "", exc |-> "none",
    returncode |-> 0, stderr |-> NoBytes,
    status |-> 0, probes |-> 0, spawns |-> 0, elapsed |-> 0,
    file_size |-> 0, pending |-> "none", sent |-> {} ]

NoProc == [st |-> "none", path |-> None]

Init ==
  /\ job = [j \in Jobs |-> IdleJob]
  /\ files = [p \in Paths |-> NoFile]
  /\ procs = [p \in Pids |-> NoProc]
  /\ nextPath = 1
  /\ nextPid = 1
  /\ DISCORD_TOKEN \in EnvValues
  /\ HA_URL \in EnvValues
  /\ HA_TOKEN \in EnvValues
  /\ CAMERA_ENTITY_ID \in EnvValues
  /\ mainpc = "init"

\* ------------------------------------------------------------ startup

\* Python's truth value of an os.getenv result: None and "" are false.
Truthy(v) == v # NoEnv /\ v # ""

\* A presence check satisfied by any one of the three values.
HaConfigPresent_Any(url, token, entity) ==
  Truthy(url) \/ Truthy(token) \/ Truthy(entity)

\* all([HA_URL, HA_TOKEN, CAMERA_ENTITY_ID])
HaConfigPresent(url, token, entity) ==
  Truthy(url) /\ Truthy(token) /\ Truthy(entity)

\* main(): raise ValueError when the token or any of the Home Assistant
\* values is missing, else bot.run(DISCORD_TOKEN).
Main ==
  /\ mainpc = "init"
  /\ mainpc' = IF ~Truthy(DISCORD_TOKEN) THEN "raised"
               ELSE IF ~HaConfigPresent(HA_URL, HA_TOKEN, CAMERA_ENTITY_ID)
               THEN "raised"
               ELSE "running"
  /\ UNCHANGED <<job, files, procs, nextPath, nextPid, config>>

\* Commands are dispatched, and their tasks and processes run, only inside
\* bot.run; the configuration is read once, at import.
BotRunning ==
  /\ mainpc = "running"
  /\ UNCHANGED <<config, mainpc>>

\* ------------------------------------------------------------ control flow of the coroutines

\* The loop variable i once control has left the try body: it is never read
\* again, and is kept only for a loop that ran to its end.
LoopVar(jr) == IF jr.rpc = "idle" THEN 0 ELSE jr.i

\* record_command's finally block: unlink the artifact, then delete the
\* progress message when there is one (a failure of that is swallowed); the
\* command is over.
Finally(jr) ==
  [jr EXCEPT !.cpc = "done", !.processing_msg = FALSE, !.i = LoopVar(jr)]

\* record_command ends by re-raising an Exception: the finally block runs,
\* then the command framework hands the error to on_command_error, which
\* awaits its own ctx.send.
Reraise(jr) == [Finally(jr) EXCEPT !.cpc = "on_command_error"]

\* An Exception reaches record_command's except block, which awaits
\* ctx.send of the error text.
Except(jr, kind) ==
  [jr EXCEPT !.cpc = "error", !.exc = kind, !.i = LoopVar(jr)]

\* record_video raises `kind` to its caller.
Raise(jr, kind, text) ==
  LET r == [jr EXCEPT !.rpc = "done", !.result = kind, !.errtext = text,
                      !.elapsed = 0]
  IN IF jr.cpc = "direct" THEN r ELSE Except(r, kind)

\* A probe that keeps asking the endpoint after a refusal.
ProbeFailed_Retry(jr) ==
  IF jr.probes < 2 THEN [jr EXCEPT !.rpc = "probe"]
  ELSE Raise(jr, "ResolutionFailed", "Failed to get camera stream")

\* get_camera_stream_url raises on a status other than 200; nothing in
\* record_video catches it before the outer except block, which re-raises.
ProbeFailed(jr) == Raise(jr, "ResolutionFailed", "Failed to get camera stream")

\* record_video is entered: the range check, then the await of the probe.
EnterRecordVideo(jr) ==
  IF ~ValidDuration(jr.duration)
  THEN Raise(jr, "ValueError", "Duration must be between 1 and 60 seconds")
  ELSE [jr EXCEPT !.rpc = "probe"]

\* record_command calls record_video.
CallRecordVideo(jr) == EnterRecordVideo([jr EXCEPT !.cpc = "recording"])

\* ------------------------------------------------------------ record_command

\* "!record d" is dispatched to record_command: the range check, then the
\* await of the first ctx.send.
RecordCommand(j, d) ==
  /\ BotRunning
  /\ job[j].cpc = "idle"
  /\ job' = [job EXCEPT ![j] =
       [IdleJob EXCEPT !.duration = d,
                       !.cpc = IF CmdValidDuration(d) THEN "starting" ELSE "warning"]]
  /\ UNCHANGED <<files, procs, nextPath, nextPid>>

\* The "Duration must be between 1 and 60 seconds!" message was sent (or the
\* send raised); the command returns through its finally block.
WarningSent(j, ok) ==
  /\ BotRunning
  /\ job[j].cpc = "warning"
  /\ job' = [job EXCEPT ![j] =
       IF ok THEN Finally([@ EXCEPT !.sent = @ \cup {"InvalidDuration"}])
       ELSE Except(@, "SendFailed")]
  /\ UNCHANGED <<files, procs, nextPath, nextPid>>

\* The "Starting d-second recording..." message was sent: enter the progress
\* loop when duration > 5, else call record_video.
StartingSent(j, ok) ==
  /\ BotRunning
  /\ job[j].cpc = "starting"
  /\ job' = [job EXCEPT ![j] =
       IF ~ok THEN Except(@, "SendFailed")
       ELSE LET jr == [@ EXCEPT !.processing_msg = TRUE,
                               !.sent = @ \cup {"Starting"}]
            IN IF jr.duration > ProgressThreshold
               THEN [jr EXCEPT !.cpc = "progress", !.i = 0]
               ELSE CallRecordVideo(jr)]
  /\ UNCHANGED <<files, procs, nextPath, nextPid>>

\* A range that ends one step early.
InRange_Short(i, d) == i + ProgressStep < d

\* i is a value of range(0, d, 5), given that it is a multiple of 5 from 0.
InRange(i, d) == i < d

\* One iteration of "for i in range(0, duration, 5)": sleep(5), then the edit
\* of the progress message; after the last iteration record_video is called.
Progress(j, ok) ==
  /\ BotRunning
  /\ job[j].cpc = "progress"
  /\ job' = [job EXCEPT ![j] =
       IF ~ok THEN Except(@, "EditFailed")
       ELSE IF InRange(@.i + ProgressStep, @.duration)
            THEN [@ EXCEPT !.i = @ + ProgressStep]
            ELSE CallRecordVideo([@ EXCEPT !.i = @ + ProgressStep])]
  /\ UNCHANGED <<files, procs, nextPath, nextPid>>

\* The "Processing video..." edit returned: inspect the artifact and await
\* the send of the empty-file notice, the too-large notice or the file.
ProcessingEdited(j, ok) ==
  /\ BotRunning
  /\ job[j].cpc = "processing"
  /\ job' = [job EXCEPT ![j] =
       IF ~ok THEN Except(@, "EditFailed")
       ELSE IF ArtifactEmpty(files, @.video_path)
            THEN [@ EXCEPT !.cpc = "sending", !.pending = "EmptyFile"]
            ELSE [@ EXCEPT !.cpc = "sending",
                           !.file_size = files[job[j].video_path],
                           !.pending = IF ArtifactTooLarge(files[job[j].video_path])
                                       THEN "TooLarge" ELSE "File"]]
  /\ UNCHANGED <<files, procs, nextPath, nextPid>>

\* The pending ctx.send returned: the command ends through its finally block,
\* or the send raised and the except block is entered.
SendReturns(j, ok) ==
  /\ BotRunning
  /\ job[j].cpc = "sending"
  /\ job' = [job EXCEPT ![j] =
       IF ok THEN Finally([@ EXCEPT !.sent = @ \cup {job[j].pending}])
       ELSE Except(@, "SendFailed")]
  /\ files' = IF ok THEN CleanupFinally(files, job[j].video_path) ELSE files
  /\ UNCHANGED <<procs, nextPath, nextPid>>

\* The except block's ctx.send of the error text returned (or raised); the
\* exception is re-raised through the finally block.
ErrorSent(j, ok) ==
  /\ BotRunning
  /\ job[j].cpc = "error"
  /\ job' = [job EXCEPT ![j] =
       Reraise([@ EXCEPT !.sent = IF ok THEN @ \cup {"Error"} ELSE @])]
  /\ files' = CleanupFinally(files, job[j].video_path)
  /\ UNCHANGED <<procs, nextPath, nextPid>>

\* on_command_error: the error raised by record_command is none of the
\* framework's own, so the last branch sends "An error occurred: ...".
OnCommandError(j, ok) ==
  /\ BotRunning
  /\ job[j].cpc = "on_command_error"
  /\ job' = [job EXCEPT ![j] =
       [@ EXCEPT !.cpc = "done",
                 !.sent = IF ok THEN @ \cup {"ErrorOccurred"} ELSE @]]
  /\ UNCHANGED <<files, procs, nextPath, nextPid>>

\* ------------------------------------------------------------ record_video

\* record_video(d) called by something other than record_command.
RecordVideo(j, d) ==
  /\ BotRunning
  /\ job[j].cpc = "idle"
  /\ job' = [job EXCEPT ![j] =
       EnterRecordVideo([IdleJob EXCEPT !.duration = d, !.cpc = "direct"])]
  /\ UNCHANGED <<files, procs, nextPath, nextPid>>

\* get_camera_stream_url returned status s.  On 200 the temporary file is
\* created and create_subprocess_exec awaited; otherwise the probe raises.
ProbeReturns(j, s) ==
  /\ BotRunning
  /\ job[j].rpc = "probe"
  /\ LET jr == [job[j] EXCEPT !.probes = @ + 1, !.status = s]
         path == NamedTemporaryFile(nextPath)
     IN IF StatusOk(s)
        THEN /\ job' = [job EXCEPT ![j] =
                  [jr EXCEPT !.output_path = path, !.rpc = "spawn"]]
             /\ files' = [files EXCEPT ![path] = 0]
             /\ nextPath' = nextPath + 1
        ELSE /\ job' = [job EXCEPT ![j] = ProbeFailed(jr)]
             /\ files' = CleanupOnError(files, jr.output_path)
             /\ nextPath' = nextPath
  /\ UNCHANGED <<procs, nextPid>>

\* create_subprocess_exec returned the process, or raised (no ffmpeg binary);
\* spawns counts the calls of create_subprocess_exec.
SpawnReturns(j, ok) ==
  /\ BotRunning
  /\ job[j].rpc = "spawn"
  /\ IF ok
     THEN /\ job' = [job EXCEPT ![j] =
               [@ EXCEPT !.process = nextPid, !.spawns = @ + 1,
                         !.rpc = "communicate", !.elapsed = 0]]
          /\ procs' = [procs EXCEPT ![nextPid] =
               [st |-> "running", path |-> job[j].output_path]]
          /\ nextPid' = nextPid + 1
          /\ files' = files
     ELSE /\ job' = [job EXCEPT ![j] =
               Raise([@ EXCEPT !.spawns = @ + 1], "SpawnFailed", "No such file")]
          /\ files' = CleanupOnError(files, job[j].output_path)
          /\ UNCHANGED <<procs, nextPid>>
  /\ UNCHANGED nextPath

\* A wait on the process with no deadline at all.
UnderDeadline_None(pc) == FALSE

\* A deadline that covers every await of record_video.
UnderDeadline_All(pc) == pc \in {"probe", "spawn", "communicate", "sleep"}

\* The awaits of record_video that asyncio.wait_for wraps: only
\* process.communicate().
UnderDeadline(pc) == pc = "communicate"

\* Time passes while wait_for(process.communicate(), duration + 15) waits.
Tick(j) ==
  /\ BotRunning
  /\ UnderDeadline(job[j].rpc)
  /\ job[j].elapsed < Timeout(job[j].duration)
  /\ job' = [job EXCEPT ![j].elapsed =
       IF @ + TickLen < Timeout(job[j].duration)
       THEN @ + TickLen ELSE Timeout(job[j].duration)]
  /\ UNCHANGED <<files, procs, nextPath, nextPid>>

\* The deadline expired with the process still running: "if process:
\* process.kill()", raise "Recording timed out", which the except block
\* cleans up after.
WaitTimeout(j) ==
  /\ BotRunning
  /\ UnderDeadline(job[j].rpc)
  /\ job[j].elapsed = Timeout(job[j].duration)
  /\ job[j].process # None => procs[job[j].process].st = "running"
  /\ procs' = IF job[j].process # None
              THEN [procs EXCEPT ![job[j].process].st = "killed"]
              ELSE procs
  /\ files' = CleanupOnError(files, job[j].output_path)
  /\ job' = [job EXCEPT ![j] = Raise(@, "TimedOut", "Recording timed out")]
  /\ UNCHANGED <<nextPath, nextPid>>

\* The process exits with status c and stderr contents e before the
\* deadline and communicate() returns them: the exit status, then the output
\* file, decide.  stderr is recorded when it is read (returncode # 0).
CommunicateReturns(j, c, e) ==
  /\ BotRunning
  /\ job[j].rpc = "communicate"
  /\ procs[job[j].process].st = "running"
  /\ procs' = [procs EXCEPT ![job[j].process].st = "exited"]
  /\ LET jr == [job[j] EXCEPT !.returncode = c,
                              !.stderr = IF c # 0 THEN e ELSE NoBytes]
         out == jr.output_path
     IN IF jr.returncode # 0
        THEN /\ job' = [job EXCEPT ![j] =
                  IF jr.stderr # NoBytes /\ ~Decodable(jr.stderr)
                  THEN Raise(jr, "DecodeError", "can't decode byte")
                  ELSE Raise(jr, "ProcessFailed", ErrorMsg(jr.stderr))]
             /\ files' = CleanupOnError(files, out)
        ELSE IF OutputTooSmall(files, out)
        THEN /\ job' = [job EXCEPT ![j] =
                  Raise(jr, "EmptyOutput", "Output file is too small or missing")]
             /\ files' = CleanupOnError(files, out)
        ELSE /\ job' = [job EXCEPT ![j] = [jr EXCEPT !.rpc = "sleep", !.elapsed = 0]]
             /\ files' = files
  /\ UNCHANGED <<nextPath, nextPid>>

\* asyncio.sleep(1) returned: record_video returns output_path; in
\* record_command the path is bound to video_path and the edit awaited.
SleepReturns(j) ==
  /\ BotRunning
  /\ job[j].rpc = "sleep"
  /\ job' = [job EXCEPT ![j] =
       LET r == [@ EXCEPT !.rpc = "done", !.result = "path"]
       IN IF @.cpc = "direct" THEN r
          ELSE [r EXCEPT !.video_path = job[j].output_path, !.cpc = "processing"]]
  /\ UNCHANGED <<files, procs, nextPath, nextPid>>

\* ------------------------------------------------------------ cancellation

\* The task is cancelled while suspended on an await.  CancelledError is a
\* BaseException: "except Exception" does not catch it, so record_video's
\* except block is skipped and only record_command's finally block runs.
Cancel(j) ==
  /\ BotRunning
  /\ \/ job[j].rpc \in {"probe", "spawn", "communicate", "sleep"}
     \/ job[j].cpc \in {"warning", "starting", "progress", "processing",
                        "sending", "error"}
  /\ LET inRv == job[j].rpc \in {"probe", "spawn", "communicate", "sleep"}
         jr == IF inRv
               THEN [job[j] EXCEPT !.rpc = "done", !.result = "Cancelled",
                                   !.elapsed = 0]
               ELSE job[j]
     IN /\ job' = [job EXCEPT ![j] =
             IF jr.cpc = "direct" THEN jr
             ELSE Finally([jr EXCEPT !.exc = "Cancelled"])]
        /\ files' = IF jr.cpc = "direct" THEN files
                    ELSE CleanupFinally(files, jr.video_path)
  /\ UNCHANGED <<procs, nextPath, nextPid>>

\* ------------------------------------------------------------ the external process

\* A process that was sent SIGKILL stops only when the kernel delivers the
\* signal; nothing in record_video waits for that, so a killed process can
\* still act until ProcDie.
Alive(p) == procs[p].st \in {"running", "killed"}

\* Some call is waiting in communicate() for process p.
Awaited(p) == \E j \in Jobs : job[j].rpc = "communicate" /\ job[j].process = p

\* ffmpeg (re)creates and writes its output file (-y).  The file of a process
\* that no call waits for is never read again: of what such a process writes
\* only the re-creation of the file is kept.
ProcWrite(p, s) ==
  /\ BotRunning
  /\ Alive(p)
  /\ Awaited(p) \/ s = 0
  /\ files[procs[p].path] # s
  /\ files' = [files EXCEPT ![procs[p].path] = s]
  /\ UNCHANGED <<job, procs, nextPath, nextPid>>

\* The process leaves no output file behind.
ProcUnlink(p) ==
  /\ BotRunning
  /\ Alive(p)
  /\ Exists(files, procs[p].path)
  /\ files' = [files EXCEPT ![procs[p].path] = NoFile]
  /\ UNCHANGED <<job, procs, nextPath, nextPid>>

\* A process that no task is waiting for any more exits by itself.
ProcExit(p) ==
  /\ BotRunning
  /\ procs[p].st = "running"
  /\ ~Awaited(p)
  /\ procs' = [procs EXCEPT ![p].st = "exited"]
  /\ UNCHANGED <<job, files, nextPath, nextPid>>

\* SIGKILL is delivered.
ProcDie(p) ==
  /\ BotRunning
  /\ procs[p].st = "killed"
  /\ procs' = [procs EXCEPT ![p].st = "exited"]
  /\ UNCHANGED <<job, files, nextPath, nextPid>>

\* ------------------------------------------------------------ specification

Next ==
  \/ Main
  \/ \E j \in Jobs, d \in Durations : RecordCommand(j, d)
  \/ \E j \in Jobs, ok \in BOOLEAN : WarningSent(j, ok)
  \/ \E j \in Jobs, ok \in BOOLEAN : StartingSent(j, ok)
  \/ \E j \in Jobs, ok \in BOOLEAN : Progress(j, ok)
  \/ \E j \in Jobs, ok \in BOOLEAN : ProcessingEdited(j, ok)
  \/ \E j \in Jobs, ok \in BOOLEAN : SendReturns(j, ok)
  \/ \E j \in Jobs, ok \in BOOLEAN : ErrorSent(j, ok)
  \/ \E j \in Jobs, ok \in BOOLEAN : OnCommandError(j, ok)
  \/ \E j \in Jobs, d \in DirectDurations : RecordVideo(j, d)
  \/ \E j \in Jobs, s \in Statuses : ProbeReturns(j, s)
  \/ \E j \in Jobs, ok \in BOOLEAN : SpawnReturns(j, ok)
  \/ \E j \in Jobs : Tick(j)
  \/ \E j \in Jobs : WaitTimeout(j)
  \/ \E j \in Jobs, c \in ExitCodes, e \in Stderrs : CommunicateReturns(j, c, e)
  \/ \E j \in Jobs : SleepReturns(j)
  \/ \E j \in Jobs : Cancel(j)
  \/ \E p \in Pids, s \in Sizes : ProcWrite(p, s)
  \/ \E p \in Pids : ProcUnlink(p)
  \/ \E p \in Pids : ProcExit(p)
  \/ \E p \in Pids : ProcDie(p)

Spec == Init /\ [][Next]_vars

\* The step the event loop takes for a call whose awaited event is due: time
\* passes on the deadline, the due timer fires, asyncio.sleep returns, or
\* create_subprocess_exec returns or raises.
Resume(j) ==
  \/ Tick(j)
  \/ WaitTimeout(j)
  \/ SleepReturns(j)
  \/ \E ok \in BOOLEAN : SpawnReturns(j, ok)

\* The event loop resumes every task that is not cancelled.  Nothing
\* guarantees that the endpoint answers the probe or that the external
\* process ever exits.
Fairness == \A j \in Jobs : WF_vars(Resume(j))

LiveSpec == Spec /\ Fairness

\* ------------------------------------------------------------ properties

\* The errors record_video raises through its "except Exception" block.
Failures ==
  {"ValueError", "ResolutionFailed", "SpawnFailed", "TimedOut",
   "ProcessFailed", "DecodeError", "EmptyOutput"}

InvalidDuration(d) == d < MinDuration \/ d > MaxDuration

HasFile(j) ==
  job[j].output_path # None /\ Exists(files, job[j].output_path)

\* C1: in the step in which record_video raises a failure (resolver failure,
\* spawn failure, time-out, non-zero exit, undecodable stderr, missing or
\* undersized output), no file exists at the job's temporary path: the
\* deletion has run by the time the error reaches the caller.
C1_NoFileWhenFailureRaised ==
  [][\A j \in Jobs :
       (job[j].result = "none" /\ job'[j].result \in Failures)
       => (job'[j].output_path = None
           \/ ~Exists(files', job'[j].output_path))]_vars

\* A timed-out job whose temporary file had been created and is gone.
C1_Witness ==
  \E j \in Jobs :
    /\ job[j].result = "TimedOut"
    /\ job[j].output_path # None
    /\ ~Exists(files, job[j].output_path)
    /\ procs[job[j].process].st = "exited"

\* C2: a recording cancelled while record_video awaited the probe (no file
\* yet), the external process or the final sleep (a process was spawned)
\* leaves no running process and no temporary file behind.
C2_CancelRunsCleanup ==
  \A j \in Jobs :
    (job[j].result = "Cancelled"
     /\ (job[j].output_path = None \/ job[j].process # None))
    => /\ job[j].process = None \/ procs[job[j].process].st = "exited"
       /\ ~HasFile(j)

\* C3: when record_video has raised the time-out, the process is no longer
\* running and no file exists at the temporary path.
C3_TimedOutProcessGone ==
  \A j \in Jobs :
    job[j].result = "TimedOut"
    => /\ procs[job[j].process].st = "exited"
       /\ ~HasFile(j)

\* C4: a duration outside 1..60 makes record_video raise the invalid-duration
\* error with no probe made, no temporary file created and no process
\* spawned; record_command does not even enter record_video.
C4_InvalidDurationRejectedFirst ==
  \A j \in Jobs :
    (job[j].cpc # "idle" /\ InvalidDuration(job[j].duration))
    => /\ job[j].probes = 0
       /\ job[j].spawns = 0
       /\ job[j].output_path = None
       /\ job[j].process = None
       /\ job[j].rpc \in {"idle", "done"}
       /\ job[j].rpc = "done" => job[j].result = "ValueError"
       /\ job[j].cpc = "direct" => job[j].rpc = "done"
       /\ job[j].cpc # "direct" => job[j].rpc = "idle"

\* record_video(61) has raised the invalid-duration error.
C4_Witness ==
  \E j \in Jobs :
    /\ job[j].cpc = "direct"
    /\ job[j].duration = MaxDuration + 1
    /\ job[j].result = "ValueError"

\* record_video has returned its path and the caller has not yet disposed of
\* the file.
Returned(j) ==
  job[j].result = "path" /\ job[j].cpc \in {"direct", "processing"}

\* C5 as stated: a returned artifact exists and is strictly larger than
\* 1024 bytes.
C5_ReturnedSizeAboveMin ==
  \A j \in Jobs :
    Returned(j) => HasFile(j) /\ files[job[j].output_path] > MinSize

\* C5 as amended: a returned artifact exists and is at least 1024 bytes.
C5_ReturnedSizeAtLeastMin ==
  \A j \in Jobs :
    Returned(j) => HasFile(j) /\ files[job[j].output_path] >= MinSize

\* record_video returned an artifact of exactly 1024 bytes.
C5_Witness ==
  \E j \in Jobs : Returned(j) /\ files[job[j].output_path] = MinSize

\* C6: a probe status other than 200 makes record_video raise the resolution
\* failure; no process is spawned and no temporary file is created.
C6_ProbeFailureStopsJob ==
  \A j \in Jobs :
    (job[j].status # 0 /\ job[j].status # HttpOk)
    => /\ job[j].result = "ResolutionFailed"
       /\ job[j].rpc = "done"
       /\ job[j].spawns = 0
       /\ job[j].process = None
       /\ job[j].output_path = None

\* The probe answered 403 and the job failed with the resolution failure.
C6_Witness ==
  \E j \in Jobs :
    /\ job[j].status = 403
    /\ job[j].probes = 1
    /\ job[j].result = "ResolutionFailed"

\* C7: when record_command is over and record_video had returned it a path,
\* no file exists at that path, whichever way the command ended.
C7_ArtifactDeletedAtEnd ==
  \A j \in Jobs :
    (job[j].cpc = "done" /\ job[j].video_path # None)
    => ~Exists(files, job[j].video_path)

\* One command ended after sending its file, the other was cancelled after
\* record_video had returned; both artifacts are gone.
C7_Witness ==
  /\ job[1].cpc = "done" /\ "File" \in job[1].sent
  /\ job[2].cpc = "done" /\ job[2].exc = "Cancelled"
  /\ job[2].video_path # None

\* record_video is between its call and its return.
Live(j) == job[j].rpc \in {"probe", "spawn", "communicate", "sleep"}

\* C8: no two jobs share a temporary path or a process, a job's process
\* writes that job's path, and no step of one task changes the file or the
\* process of another job that is in flight.
C8_JobsAreIndependent ==
  /\ [](\A j, k \in Jobs :
          j # k =>
            /\ job[j].output_path # None => job[j].output_path # job[k].output_path
            /\ job[j].process # None => job[j].process # job[k].process)
  /\ [](\A j \in Jobs :
          job[j].process # None
          => procs[job[j].process].path = job[j].output_path)
  /\ [][\A j, k \in Jobs :
          (j # k /\ job'[j] # job[j] /\ Live(k))
          => /\ job[k].output_path # None
                => files'[job[k].output_path] = files[job[k].output_path]
             /\ job[k].process # None
                => procs'[job[k].process] = procs[job[k].process]]_vars

\* One job timed out and was cleaned up while the other was awaiting its own
\* running process, its file still in place.
C8_Witness ==
  \E j, k \in Jobs :
    /\ job[j].result = "TimedOut"
    /\ job[k].rpc = "communicate"
    /\ procs[job[k].process].st = "running"
    /\ HasFile(k)

\* C9 as stated: a file is sent only when its size is nonzero and strictly
\* below 8 MiB.
C9_SentStrictlyBelowCeiling ==
  \A j \in Jobs :
    "File" \in job[j].sent
    => job[j].file_size > 0 /\ job[j].file_size < SizeLimitMB * MB

\* C9 as amended: a file is sent only when its size is nonzero and at most
\* 8 MiB; for an artifact above 8 MiB the too-large notification is what the
\* command sends, never the file.
C9_SentAtMostCeiling ==
  \A j \in Jobs :
    /\ ("File" \in job[j].sent \/ job[j].pending = "File")
       => job[j].file_size > 0 /\ job[j].file_size <= SizeLimitMB * MB
    /\ job[j].file_size > SizeLimitMB * MB
       => job[j].pending = "TooLarge" /\ "File" \notin job[j].sent
    /\ "TooLarge" \in job[j].sent => job[j].file_size > SizeLimitMB * MB

\* An artifact of exactly 8 MiB was sent.
C9_Witness ==
  \E j \in Jobs :
    "File" \in job[j].sent /\ job[j].file_size = SizeLimitMB * MB

\* C10: when the wait on a spawned process ends (other than by cancellation),
\* the outcome is timed-out if the deadline expired; otherwise process-failed
\* with the stderr text if the exit status is non-zero; otherwise empty-output
\* if the file is missing or below 1024 bytes; otherwise the job goes on to
\* return the path.  The three failures leave no file.
C10_OutcomeFunction ==
  [][\A j \in Jobs :
       (job[j].rpc = "communicate" /\ job'[j].rpc # "communicate"
        /\ job'[j].result # "Cancelled")
       => LET out == job[j].output_path
              expired == procs'[job[j].process].st = "killed"
          IN IF expired
             THEN job'[j].result = "TimedOut" /\ ~Exists(files', out)
             ELSE IF job'[j].returncode # 0
             THEN /\ job'[j].result = "ProcessFailed"
                  /\ job'[j].stderr # NoBytes
                     => job'[j].errtext = job'[j].stderr
                  /\ ~Exists(files', out)
             ELSE IF ~Exists(files, out) \/ files[out] < MinSize
             THEN job'[j].result = "EmptyOutput" /\ ~Exists(files', out)
             ELSE /\ job'[j].rpc = "sleep"
                  /\ job'[j].result = "none"
                  /\ files'[out] = files[out]]_vars

\* The failure of the taxonomy a finished command ended with, if any (none
\* when the chat transport itself failed or the task was cancelled).
FailureKind(jr) ==
  IF jr.exc \in {"SendFailed", "EditFailed", "Cancelled"} THEN "none"
  ELSE IF InvalidDuration(jr.duration) THEN "InvalidDuration"
  ELSE IF jr.exc \in {"ResolutionFailed", "ProcessFailed", "TimedOut", "EmptyOutput"}
  THEN jr.exc
  ELSE IF jr.pending = "TooLarge" /\ jr.exc = "none" THEN "TooLarge"
  ELSE "none"

\* The texts of the failure messages the user of the command received.
FailureNotices(jr) ==
  {NoticeText(jr, k) : k \in jr.sent \ {"Starting", "File"}}

\* C11: a command that ended with a failure of the taxonomy has sent its user
\* one notification, whose text differs from the text sent for any other
\* kind; a command that ended with any other exception has sent the generic
\* notification and left no artifact.
C11_OneDistinctNotification ==
  /\ \A j \in Jobs :
       (job[j].cpc = "done" /\ FailureKind(job[j]) # "none")
       => Cardinality(FailureNotices(job[j])) <= 1
  /\ \A j, k \in Jobs :
       (/\ job[j].cpc = "done" /\ job[k].cpc = "done"
        /\ FailureKind(job[j]) # "none" /\ FailureKind(job[k]) # "none"
        /\ FailureKind(job[j]) # FailureKind(job[k]))
       => FailureNotices(job[j]) \cap FailureNotices(job[k]) = {}
  /\ \A j \in Jobs :
       (job[j].cpc = "done" /\ job[j].exc \in {"SpawnFailed", "DecodeError"})
       => /\ FailureNotices(job[j]) \subseteq
               {NoticeText(job[j], "Error"), NoticeText(job[j], "ErrorOccurred")}
          /\ ~HasFile(j)

\* C12: one record_video call probes the stream endpoint at most once and
\* calls create_subprocess_exec at most once; after a refused probe or a
\* failed spawn the call is over, with that failure as its result and nothing
\* attempted after it.
C12_NoRetry ==
  \A j \in Jobs :
    /\ job[j].probes <= 1
    /\ job[j].spawns <= 1
    /\ job[j].spawns <= job[j].probes
    /\ job[j].probes = 1 /\ ~(job[j].status = HttpOk)
         => /\ job[j].rpc = "done"
            /\ job[j].result = "ResolutionFailed"
            /\ job[j].spawns = 0
    /\ job[j].spawns = 1 /\ job[j].process = None
         => job[j].rpc = "done" /\ job[j].result = "SpawnFailed"

\* Both first failures happened: one call was refused by the endpoint, another
\* failed to start its process.
C12_Witness ==
  \E j, k \in Jobs :
    /\ job[j].result = "ResolutionFailed" /\ job[j].probes = 1
    /\ job[k].result = "SpawnFailed" /\ job[k].spawns = 1

\* The state of the job of section 3 that a record_video call is in.
JobState(jr) ==
  CASE jr.rpc = "idle" -> "CREATED"
    [] jr.rpc = "probe" -> "RESOLVING"
    [] jr.rpc \in {"spawn", "communicate", "sleep"} -> "RUNNING"
    [] jr.rpc = "done" /\ jr.result = "path" -> "COMPLETED"
    [] jr.rpc = "done" /\ jr.result = "TimedOut" -> "TIMED_OUT"
    [] OTHER -> "FAILED"

\* The transitions of the state machine of section 4.2.
Transitions ==
  {<<"CREATED", "RESOLVING">>, <<"RESOLVING", "RUNNING">>,
   <<"RUNNING", "COMPLETED">>, <<"RUNNING", "TIMED_OUT">>,
   <<"CREATED", "FAILED">>, <<"RESOLVING", "FAILED">>, <<"RUNNING", "FAILED">>}

\* C13: every change of a job's state is one of CREATED -> RESOLVING ->
\* RUNNING -> COMPLETED, a failure from a non-terminal state to FAILED, or
\* RUNNING -> TIMED_OUT taken from the wait on the spawned process; COMPLETED,
\* FAILED and TIMED_OUT are never left.
C13_StateMachine ==
  [][\A j \in Jobs :
       LET a == JobState(job[j])
           b == JobState(job'[j])
       IN a # b => /\ <<a, b>> \in Transitions
                   /\ b = "TIMED_OUT" => job[j].rpc = "communicate"]_vars

\* One call timed out and another returned its path.
C13_Witness ==
  \E j, k \in Jobs :
    /\ JobState(job[j]) = "TIMED_OUT"
    /\ JobState(job[k]) = "COMPLETED"

\* Some command handler or record_video call has started executing.
HandlerExecuted == \E j \in Jobs : job[j].cpc # "idle"

\* C14: bot.run is reached only with DISCORD_TOKEN, HA_URL, HA_TOKEN and
\* CAMERA_ENTITY_ID all present; with any of them absent main raises and no
\* handler ever executes, so every request that is served sees all four.
C14_StartupValidatesConfig ==
  LET allPresent == \A v \in {DISCORD_TOKEN, HA_URL, HA_TOKEN, CAMERA_ENTITY_ID} :
                      v # NoEnv
  IN /\ mainpc = "running" => allPresent
     /\ ~allPresent => mainpc \in {"init", "raised"} /\ ~HandlerExecuted
     /\ HandlerExecuted => mainpc = "running" /\ allPresent

\* A command is being served by a bot that was started with a full
\* configuration.
C14_ServingWitness ==
  /\ mainpc = "running"
  /\ \E j \in Jobs : job[j].rpc = "probe" /\ job[j].cpc = "recording"

\* main raised at startup because a Home Assistant value was absent.
C14_Witness ==
  /\ mainpc = "raised"
  /\ DISCORD_TOKEN = "value"
  /\ HA_URL = NoEnv

\* C15: the deadline duration + 15 exceeds every accepted duration, and a
\* record_video call that got past its probe (it is spawning, waiting on the
\* process or in its final sleep) eventually returns or raises, whether or
\* not the process ever exits.
C15_RunningTerminates ==
  /\ \A d \in MinDuration..MaxDuration : Timeout(d) > d
  /\ \A j \in Jobs :
       (JobState(job[j]) = "RUNNING")
         ~> (JobState(job[j]) \in {"COMPLETED", "FAILED", "TIMED_OUT"})

\* A call ended by its deadline with its process still not exited.
C15_Witness ==
  \E j \in Jobs :
    /\ job[j].rpc = "done"
    /\ job[j].result = "TimedOut"
    /\ job[j].process # None
    /\ procs[job[j].process].st = "killed"

\* C16: while record_command is in its progress loop record_video has not
\* been entered (no probe, no process), and when record_video has been
\* entered by a command with duration > 5 all ceil(duration / 5) progress
\* edits are done; a shorter command makes none.
C16_ProgressBeforeRecording ==
  \A j \in Jobs :
    LET jr == job[j]
        edits == jr.i \div ProgressStep
    IN /\ jr.cpc = "progress"
            => jr.rpc = "idle" /\ jr.probes = 0 /\ jr.process = None
       /\ jr.cpc # "direct" /\ jr.rpc # "idle"
            => edits = IF jr.duration > ProgressThreshold
                       THEN (jr.duration + ProgressStep - 1) \div ProgressStep
                       ELSE 0

\* The process of a 6-second command is running after both of its progress
\* edits.
C16_Witness ==
  \E j \in Jobs :
    /\ job[j].cpc = "recording"
    /\ job[j].rpc = "communicate"
    /\ job[j].duration = 6
    /\ job[j].i = 2 * ProgressStep

\* C17: record_command never takes its "empty file created" branch: at its
\* check the artifact record_video returned exists with at least 1024 bytes,
\* so the notice of that branch is never pending and never sent.
C17_EmptyBranchUnreachable ==
  \A j \in Jobs :
    /\ job[j].pending # "EmptyFile"
    /\ "EmptyFile" \notin job[j].sent
    /\ job[j].cpc = "processing"
         => /\ ~ArtifactEmpty(files, job[j].video_path)
            /\ files[job[j].video_path] >= MinSize

\* A command passed the check on the artifact and is sending it.
C17_Witness ==
  \E j \in Jobs :
    /\ job[j].cpc = "sending"
    /\ job[j].pending = "File"
    /\ files[job[j].video_path] >= MinSize

====
